---- MODULE Spec2Model ----
(***************************************************************************)
(* Model of Pitcher_Dashboard.py: one run of the Streamlit script over an  *)
(* uploaded Rapsodo export.  The run loads the file, normalizes the table, *)
(* applies the three sidebar filters and derives the per-type summaries    *)
(* and the per-(day, pitch type) hardest pitch.                            *)
(*                                                                         *)
(* Velocities are kept in tenths of MPH (90.0 MPH = 900).  A missing value *)
(* (NaN) is NaN for numbers, NaNType for pitch types, NaNDate for dates.   *)
(***************************************************************************)
EXTENDS Integers, Sequences, FiniteSets

\* ------------------------------------------------------------------ bounds
MaxRows == 3

\* --------------------------------------------------------------- constants
NaN == -1
NaNType == "NaN"
NaNDate == <<0, 0, 0>>
Placeholder == "-"

Required ==
    {"No", "Date", "Pitch Type", "Is Strike", "Strike Zone Side", "Strike Zone Height",
     "Velocity", "Total Spin", "Spin Efficiency (release)", "Spin Direction",
     "HB (trajectory)", "VB (spin)", "Horizontal Angle", "Release Angle",
     "Release Height", "Release Side", "Gyro Degree (deg)", "Release Extension (ft)"}

\* ------------------------------------------------------------------ inputs
\* A Date cell is text: either month/day/year digits or something else.
Oct7 == [kind |-> "mdy", m |-> 10, d |-> 7, y |-> 2025]
Oct8 == [kind |-> "mdy", m |-> 10, d |-> 8, y |-> 2025]
NoDate == [kind |-> "text", m |-> 0, d |-> 0, y |-> 0]

\* A Velocity cell is text: either a decimal number or something else.
NumCell(t) == [kind |-> "num", tenths |-> t]
TextCell == [kind |-> "text", tenths |-> 0]

\* The cells of one data row of the export (Date, Pitch Type, Velocity):
\* two days of fastballs and curveballs at 90.0 and 91.5 MPH, and one row for
\* each irregular cell (unparseable date, "-" pitch type, empty pitch type,
\* non-numeric velocity).
RawCells ==
    [Date : {Oct7, Oct8}, PitchType : {"FB", "CB"}, Velocity : {NumCell(900), NumCell(915)}]
    \cup {[Date |-> NoDate, PitchType |-> "FB", Velocity |-> NumCell(900)],
          [Date |-> Oct7, PitchType |-> Placeholder, Velocity |-> NumCell(900)],
          [Date |-> Oct7, PitchType |-> NaNType, Velocity |-> NumCell(900)],
          [Date |-> Oct7, PitchType |-> "FB", Velocity |-> TextCell]}

\* Columns of the export other than Date / Pitch Type / Velocity whose cells
\* may all be empty in the file.
EmptyColumnChoices == {{}, {"Spin Direction"}}

None == [some |-> FALSE, columns |-> {}, empty |-> {}, rows |-> <<>>]

\* read_csv's view of an export: the header's columns, the columns whose cells
\* are all empty, and the data rows numbered by the No column.
File(e, f) ==
    [some |-> TRUE, columns |-> Required, empty |-> e,
     rows |-> [i \in DOMAIN f |->
                 [No |-> i, Date |-> f[i].Date, PitchType |-> f[i].PitchType,
                  Velocity |-> f[i].Velocity]]]

VARIABLES
    pc,                   \* position of the script run
    uploaded_file,        \* the uploader widget's value
    error,                \* what st.error reported for the load
    pitching,             \* the script's table variable
    loaded,               \* pitching as read_csv returned it
    normalized,           \* pitching after the clean-up block (line 84)
    date_widget,          \* whether the date multiselect was offered
    selected_dates,
    selected_pitch_types,
    vmin, vmax,
    velocity_range,
    movement_summary,
    velocity,
    peaks

vars == <<pc, uploaded_file, error, pitching, loaded, normalized, date_widget,
          selected_dates, selected_pitch_types, vmin, vmax, velocity_range,
          movement_summary, velocity, peaks>>

\* ------------------------------------------------------------ sequence aids
Max(S) == CHOOSE x \in S : \A y \in S : y <= x
Min(S) == CHOOSE x \in S : \A y \in S : x <= y
Range(s) == {s[i] : i \in 1..Len(s)}

\* ----------------------------------------------------------- normalization
\* read_csv(uploaded_file, skiprows=3): the table under the header row.
read_csv(file) == file

\* Whether every cell of column c is missing (an empty cell reads as NaN).
AllNA(t, c) ==
    \/ Len(t.rows) = 0
    \/ c \in t.empty
    \/ c = "Pitch Type" /\ \A i \in 1..Len(t.rows) : t.rows[i].PitchType = NaNType

\* pitching.dropna(axis=1, how="all")
dropna_columns(t) == [t EXCEPT !.columns = {c \in t.columns : ~AllNA(t, c)}]

\* pd.to_datetime(..., errors="coerce"): a timestamp, or NaT for text that is no date.
DaysIn(m, y) ==
    IF m \in {4, 6, 9, 11} THEN 30
    ELSE IF m = 2 THEN (IF y % 4 = 0 /\ (y % 100 # 0 \/ y % 400 = 0) THEN 29 ELSE 28)
    ELSE 31
NaT == [y |-> 0, m |-> 0, d |-> 0]
to_datetime(cell) ==
    IF cell.kind = "mdy" /\ cell.m \in 1..12 /\ cell.d >= 1 /\ cell.d <= DaysIn(cell.m, cell.y)
    THEN [y |-> cell.y, m |-> cell.m, d |-> cell.d]
    ELSE NaT

\* .dt.strftime("%#m/%#d/%#y"): month/day/two-digit year, NaT stays missing.
strftime(ts) == IF ts = NaT THEN NaNDate ELSE <<ts.m, ts.d, ts.y % 100>>

\* Variant: the exclusion also drops the rows whose pitch type is missing.
ExcludePlaceholderAndMissing(rows) ==
    LET kept == SelectSeq(rows, LAMBDA r : r.PitchType \notin {Placeholder, NaNType})
    IN  [i \in 1..Len(kept) |->
           [idx |-> i - 1, No |-> kept[i].No, Date |-> kept[i].Date,
            PitchType |-> kept[i].PitchType, Velocity |-> kept[i].Velocity]]

\* pitching[pitching["Pitch Type"] != "-"].reset_index(drop=True)
ExcludePlaceholder(rows) ==
    LET kept == SelectSeq(rows, LAMBDA r : r.PitchType # Placeholder)
    IN  [i \in 1..Len(kept) |->
           [idx |-> i - 1, No |-> kept[i].No, Date |-> kept[i].Date,
            PitchType |-> kept[i].PitchType, Velocity |-> kept[i].Velocity]]

\* pd.to_numeric(..., errors="coerce"): the number, or NaN for other text.
to_numeric(cell) == IF cell.kind = "num" THEN cell.tenths ELSE NaN

\* Variant: the count runs over the whole table instead of per date.
CumcountUngrouped(rows) ==
    [i \in 1..Len(rows) |-> IF rows[i].Date = NaNDate THEN NaN ELSE i]

\* pitching.groupby("Date").cumcount() + 1: the rows of a missing date belong
\* to no group and get NaN.
Cumcount(rows) ==
    [i \in 1..Len(rows) |->
       IF rows[i].Date = NaNDate THEN NaN
       ELSE Cardinality({j \in 1..i : rows[j].Date = rows[i].Date})]

\* Lines 73-84 on the projected table.
CleanRows(rows) ==
    LET dated == [i \in 1..Len(rows) |->
                    [rows[i] EXCEPT !.Date = strftime(to_datetime(rows[i].Date))]]
        kept == ExcludePlaceholder(dated)
        numeric == [i \in 1..Len(kept) |->
                      [kept[i] EXCEPT !.Velocity = to_numeric(kept[i].Velocity)]]
        number == Cumcount(numeric)
    IN  [i \in 1..Len(numeric) |->
           [idx |-> numeric[i].idx, No |-> numeric[i].No, Date |-> numeric[i].Date,
            PitchType |-> numeric[i].PitchType, Velocity |-> numeric[i].Velocity,
            PitchNumber |-> number[i]]]

\* ----------------------------------------------------------------- filters
notna_dates(rows) == {r.Date : r \in Range(rows)} \ {NaNDate}
unique_pitch_types(rows) == {r.PitchType : r \in Range(rows)} \ {NaNType}

\* pitching[pitching["Date"].isin(selected_dates)]
DateMask(rows, dates) == SelectSeq(rows, LAMBDA r : r.Date \in dates /\ r.Date # NaNDate)

\* pitching[pitching["Pitch Type"].isin(selected_pitch_types)]
TypeMask(rows, types) == SelectSeq(rows, LAMBDA r : r.PitchType \in types /\ r.PitchType # NaNType)

\* Variant: the upper end of the range is exclusive.
VelocityMaskExclusive(rows, lo, hi) ==
    SelectSeq(rows, LAMBDA r : r.Velocity # NaN /\ r.Velocity >= lo * 10 /\ r.Velocity < hi * 10)

\* (Velocity >= lo) & (Velocity <= hi); a comparison with NaN is false.
VelocityMask(rows, lo, hi) ==
    SelectSeq(rows, LAMBDA r : r.Velocity # NaN /\ r.Velocity >= lo * 10 /\ r.Velocity <= hi * 10)

\* int(x) of a float: truncation toward zero.
int(tenths) == IF tenths >= 0 THEN tenths \div 10 ELSE -((-tenths) \div 10)

Velocities(rows) == {r.Velocity : r \in Range(rows)} \ {NaN}

\* Variant: the upper bound is rounded up instead of truncated.
VelocityBoundsRoundedUp(rows) ==
    [lo |-> int(Min({r.Velocity : r \in Range(rows)} \ {NaN})),
     hi |-> int(Max({r.Velocity : r \in Range(rows)} \ {NaN}) + 9)]

\* int(pitching["Velocity"].min()), int(pitching["Velocity"].max())
VelocityBounds(rows) ==
    [lo |-> int(Min(Velocities(rows))), hi |-> int(Max(Velocities(rows)))]

\* -------------------------------------------------------------- aggregation
\* groupby("Pitch Type"): rows of a missing pitch type belong to no group.
GroupByType(rows) ==
    [p \in unique_pitch_types(rows) |-> SelectSeq(rows, LAMBDA r : r.PitchType = p)]

Idx(rows) == {r.idx : r \in Range(rows)}

\* movement_summary / velocity: per pitch type the rows aggregated and the max.
Summary(rows) ==
    [p \in unique_pitch_types(rows) |->
       [rows |-> Idx(GroupByType(rows)[p]),
        max |-> IF Velocities(GroupByType(rows)[p]) = {} THEN NaN
                ELSE Max(Velocities(GroupByType(rows)[p]))]]

\* sort_values(by=["Date", "Pitch Number"]) restricted to one day: the rows of
\* the day in Pitch Number order.
day_data(rows, day) ==
    LET s == SelectSeq(rows, LAMBDA r : r.Date = day /\ day # NaNDate)
        Before(j, i) == \/ s[j].PitchNumber < s[i].PitchNumber
                        \/ s[j].PitchNumber = s[i].PitchNumber /\ j < i
    IN  [k \in 1..Len(s) |->
           s[CHOOSE i \in 1..Len(s) : Cardinality({j \in 1..Len(s) : Before(j, i)}) = k - 1]]

pitch_type_data(rows, day, p) ==
    SelectSeq(day_data(rows, day), LAMBDA r : r.PitchType = p /\ p # NaNType)

\* Variant: the last occurrence of the maximum.
idxmaxLast(s) ==
    CHOOSE i \in 1..Len(s) :
        /\ s[i].Velocity = Max({s[k].Velocity : k \in 1..Len(s)} \ {NaN})
        /\ \A j \in (i + 1)..Len(s) : s[j].Velocity # s[i].Velocity

\* Series.idxmax(): position of the first occurrence of the maximum.
idxmax(s) ==
    CHOOSE i \in 1..Len(s) :
        /\ s[i].Velocity = Max(Velocities(s))
        /\ \A j \in 1..(i - 1) : s[j].Velocity # Max(Velocities(s))

\* max_row for every (day, pitch type) of the per-day loop.
max_rows(rows) ==
    UNION {{[day |-> day, pitch_type |-> p,
             row |-> pitch_type_data(rows, day, p)[idxmax(pitch_type_data(rows, day, p))]] :
               p \in {q \in unique_pitch_types(day_data(rows, day)) :
                        pitch_type_data(rows, day, q) # <<>>}} :
           day \in {r.Date : r \in Range(rows)}}

\* ------------------------------------------------------------------- script
Init ==
    /\ pc = "start"
    /\ \/ uploaded_file = None
       \/ \E n \in 0..MaxRows : \E e \in EmptyColumnChoices, f \in [1..n -> RawCells] :
            uploaded_file = File(e, f)
    /\ error = "none"
    /\ pitching = None
    /\ loaded = None
    /\ normalized = None
    /\ date_widget = FALSE
    /\ selected_dates = {}
    /\ selected_pitch_types = {}
    /\ vmin = NaN
    /\ vmax = NaN
    /\ velocity_range = <<NaN, NaN>>
    /\ movement_summary = <<>>
    /\ velocity = <<>>
    /\ peaks = {}

widgets == <<date_widget, selected_dates, selected_pitch_types, vmin, vmax, velocity_range>>
outputs == <<movement_summary, velocity, peaks>>

\* Lines 46-48 and 261-262: nothing uploaded, the script shows the hint.
NoUpload ==
    /\ pc = "start"
    /\ ~uploaded_file.some
    /\ pc' = "no_data"
    /\ UNCHANGED <<uploaded_file, error, pitching, loaded, normalized, widgets, outputs>>

\* Lines 49-52: read_csv returns the table.
LoadOk ==
    /\ pc = "start"
    /\ uploaded_file.some
    /\ pitching' = read_csv(uploaded_file)
    /\ loaded' = pitching'
    /\ pc' = "loaded"
    /\ UNCHANGED <<uploaded_file, error, normalized, widgets, outputs>>

\* Variant: the failed read leaves the table it had parsed so far in pitching.
LoadFailsPartial ==
    /\ pc = "start"
    /\ uploaded_file.some
    /\ \E e \in {"ParserError", "Exception"} : error' = e
    /\ pitching' = uploaded_file
    /\ pc' = "loaded"
    /\ UNCHANGED <<uploaded_file, loaded, normalized, widgets, outputs>>

\* Lines 53-56 and 261-262: read_csv raises, st.error reports it, pitching stays None.
LoadFails ==
    /\ pc = "start"
    /\ uploaded_file.some
    /\ \E e \in {"ParserError", "Exception"} : error' = e
    /\ pitching' = None
    /\ pc' = "no_data"
    /\ UNCHANGED <<uploaded_file, loaded, normalized, widgets, outputs>>

\* Lines 63-84: the clean-up block completes.
Normalize ==
    /\ pc = "loaded"
    /\ pitching.some
    /\ Required \subseteq dropna_columns(pitching).columns
    /\ pitching' = [some |-> TRUE, columns |-> Required \cup {"Pitch Number"}, empty |-> {},
                    rows |-> CleanRows(dropna_columns(pitching).rows)]
    /\ normalized' = pitching'
    /\ pc' = "normalized"
    /\ UNCHANGED <<uploaded_file, error, loaded, widgets, outputs>>

\* Lines 63-71: the projection names a column that dropna removed; KeyError.
NormalizeKeyError ==
    /\ pc = "loaded"
    /\ pitching.some
    /\ ~(Required \subseteq dropna_columns(pitching).columns)
    /\ pitching' = dropna_columns(pitching)
    /\ pc' = "KeyError"
    /\ UNCHANGED <<uploaded_file, error, loaded, normalized, widgets, outputs>>

\* Lines 88-91: the date multiselect, offered when some date is not missing.
SelectDates ==
    /\ pc = "normalized"
    /\ notna_dates(pitching.rows) # {}
    /\ date_widget' = TRUE
    /\ \E sel \in SUBSET notna_dates(pitching.rows) :
         /\ selected_dates' = sel
         /\ pitching' = [pitching EXCEPT !.rows = DateMask(pitching.rows, sel)]
    /\ pc' = "dates"
    /\ UNCHANGED <<uploaded_file, error, loaded, normalized, selected_pitch_types,
                   vmin, vmax, velocity_range, outputs>>

\* Line 88: every date is missing, no date filter.
SkipDates ==
    /\ pc = "normalized"
    /\ notna_dates(pitching.rows) = {}
    /\ pc' = "dates"
    /\ UNCHANGED <<uploaded_file, error, pitching, loaded, normalized, widgets, outputs>>

\* Lines 93-95: the pitch-type multiselect.
SelectPitchTypes ==
    /\ pc = "dates"
    /\ \E sel \in SUBSET unique_pitch_types(pitching.rows) :
         /\ selected_pitch_types' = sel
         /\ pitching' = [pitching EXCEPT !.rows = TypeMask(pitching.rows, sel)]
    /\ pc' = "types"
    /\ UNCHANGED <<uploaded_file, error, loaded, normalized, date_widget, selected_dates,
                   vmin, vmax, velocity_range, outputs>>

\* Lines 97-103: the velocity slider between int(min) and int(max).
SelectVelocity ==
    /\ pc = "types"
    /\ "Velocity" \in pitching.columns
    /\ Velocities(pitching.rows) # {}
    /\ vmin' = VelocityBounds(pitching.rows).lo
    /\ vmax' = VelocityBounds(pitching.rows).hi
    /\ \E lo \in vmin'..vmax', hi \in vmin'..vmax' :
         /\ lo <= hi
         /\ velocity_range' = <<lo, hi>>
         /\ pitching' = [pitching EXCEPT !.rows = VelocityMask(pitching.rows, lo, hi)]
    /\ pc' = "filtered"
    /\ UNCHANGED <<uploaded_file, error, loaded, normalized, date_widget, selected_dates,
                   selected_pitch_types, outputs>>

\* Line 98: min() of no value is NaN and int(NaN) raises ValueError.
SelectVelocityValueError ==
    /\ pc = "types"
    /\ "Velocity" \in pitching.columns
    /\ Velocities(pitching.rows) = {}
    /\ pc' = "ValueError"
    /\ UNCHANGED <<uploaded_file, error, pitching, loaded, normalized, widgets, outputs>>

\* Lines 148-152, 168-183 and 202-205: the summaries and the hardest pitches.
Aggregate ==
    /\ pc = "filtered"
    /\ movement_summary' = Summary(pitching.rows)
    /\ velocity' = Summary(pitching.rows)
    /\ peaks' = max_rows(pitching.rows)
    /\ pc' = "done"
    /\ UNCHANGED <<uploaded_file, error, pitching, loaded, normalized, widgets>>

Next ==
    \/ NoUpload
    \/ LoadOk
    \/ LoadFails
    \/ Normalize
    \/ NormalizeKeyError
    \/ SelectDates
    \/ SkipDates
    \/ SelectPitchTypes
    \/ SelectVelocity
    \/ SelectVelocityValueError
    \/ Aggregate

Spec == Init /\ [][Next]_vars

\* ------------------------------------------------------------------ claims
Filtered == pc \in {"filtered", "done"}

\* The table the velocity slider is derived from: the normalized rows after
\* the date and pitch-type selections.
Narrowed ==
    SelectSeq(normalized.rows,
              LAMBDA r : /\ date_widget => r.Date \in selected_dates
                         /\ r.PitchType \in selected_pitch_types)

\* Every widget left at its default: all dates, all pitch types, full range.
Defaults ==
    /\ date_widget => selected_dates = {r.Date : r \in Range(normalized.rows)} \ {NaNDate}
    /\ selected_pitch_types =
         {r.PitchType : r \in Range(SelectSeq(normalized.rows,
                                     LAMBDA r : date_widget => r.Date \in selected_dates))}
         \ {NaNType}
    /\ velocity_range = <<vmin, vmax>>

InRange(r) ==
    /\ r.Velocity # NaN
    /\ r.Velocity >= velocity_range[1] * 10
    /\ r.Velocity <= velocity_range[2] * 10

\* C1: the normalized table is the loaded table without the rows whose Pitch
\* Type is "-": its length is len(raw) minus the number of "-" rows, and the
\* rows kept are exactly the others, in order (missing pitch type, unparseable
\* date and non-numeric velocity do not remove a row).
C1_RowCount ==
    normalized.some =>
      /\ Len(normalized.rows) =
           Len(loaded.rows)
           - Cardinality({i \in 1..Len(loaded.rows) : loaded.rows[i].PitchType = "-"})
      /\ \A i \in 1..Len(loaded.rows) :
           loaded.rows[i].PitchType # "-" =>
             \E k \in 1..Len(normalized.rows) : normalized.rows[k].No = loaded.rows[i].No
      /\ \A k \in 1..Len(normalized.rows) : normalized.rows[k].PitchType # "-"

C1_Witness ==
    /\ normalized.some
    /\ \E i \in 1..Len(loaded.rows) : loaded.rows[i].PitchType = "-"
    /\ \E k \in 1..Len(normalized.rows) :
         \/ normalized.rows[k].PitchType = NaNType
         \/ normalized.rows[k].Date = NaNDate
         \/ normalized.rows[k].Velocity = NaN

\* C2: for every non-missing date of the normalized table, the Pitch Numbers
\* of its rows are 1..k in original row order, numbered after the "-" rows
\* are removed.
C2_DaySequence ==
    normalized.some =>
      \A d \in {r.Date : r \in Range(normalized.rows)} \ {NaNDate} :
        LET s == SelectSeq(normalized.rows, LAMBDA r : r.Date = d)
        IN  \A k \in 1..Len(s) : s[k].PitchNumber = k

C2_Witness ==
    /\ normalized.some
    /\ \E i \in 1..Len(normalized.rows), j \in 1..Len(normalized.rows) :
         /\ i < j
         /\ normalized.rows[i].Date = normalized.rows[j].Date
         /\ normalized.rows[i].Date # NaNDate
         /\ normalized.rows[j].PitchNumber = 2
         /\ normalized.rows[j].No = normalized.rows[i].No + 2
         /\ loaded.rows[normalized.rows[i].No + 1].PitchType = "-"

\* C3: rows with a missing date take part in no per-day group, and with all
\* dates and all pitch types selected every missing-date row with an in-range
\* velocity is aggregated in the summary of its pitch type.
C3_MissingDateRetained ==
    (pc = "done" /\ Defaults) =>
      /\ \A pk \in peaks : pk.row.Date # NaNDate
      /\ \A r \in Range(normalized.rows) :
           (r.Date = NaNDate /\ r.PitchType # NaNType /\ InRange(r)) =>
             /\ r.PitchType \in DOMAIN movement_summary
             /\ r.idx \in movement_summary[r.PitchType].rows
             /\ r.PitchType \in DOMAIN velocity
             /\ r.idx \in velocity[r.PitchType].rows

\* C4: a selection that matches no row leaves an empty table and the run goes
\* on to the summaries; deriving the velocity bounds raises nothing.
C4_EmptySelectionNoException ==
    ~(pc = "ValueError" /\ Len(pitching.rows) = 0)

\* C5: a required column dropped for being all empty does not stop the
\* normalization.
C5_MissingColumnContinues ==
    pc # "KeyError"

\* C6: with every widget at its default the filtered table equals the
\* normalized table.
C6_DefaultsNoOp ==
    (Filtered /\ Defaults) => pitching.rows = normalized.rows

\* C7 (as stated): the slider bounds are the min and max velocity of the
\* unfiltered normalized table, whatever the date and pitch-type selections.
C7_BoundsFromUnfiltered ==
    Filtered =>
      /\ \A v \in Velocities(normalized.rows) : vmin * 10 <= v /\ v < (vmax + 1) * 10
      /\ \E v \in Velocities(normalized.rows) : v < (vmin + 1) * 10
      /\ \E v \in Velocities(normalized.rows) : vmax * 10 <= v

\* C7 (amended): the slider bounds are the integer parts of the min and max
\* velocity of the table left by the date and pitch-type selections.
C7_BoundsFromNarrowed ==
    Filtered =>
      /\ \A v \in Velocities(Narrowed) : vmin * 10 <= v /\ v < (vmax + 1) * 10
      /\ \E v \in Velocities(Narrowed) : v < (vmin + 1) * 10
      /\ \E v \in Velocities(Narrowed) : vmax * 10 <= v

C7_Witness ==
    /\ Filtered
    /\ \E v \in Velocities(normalized.rows) : v < vmin * 10
    /\ \E v \in Velocities(Narrowed) : v > vmax * 10

\* The filter block as a function of explicit criteria.
Filter(rows, dates, types, lo, hi) ==
    VelocityMask(TypeMask(IF notna_dates(rows) # {} THEN DateMask(rows, dates) ELSE rows,
                          types), lo, hi)

CriteriaDates == SUBSET {<<10, 7, 25>>, <<10, 8, 25>>}
CriteriaTypes == SUBSET {"FB", "CB"}
CriteriaRanges == {<<90, 90>>, <<90, 91>>, <<91, 91>>}

C9_PeakTieBreak ==
    pc = "done" =>
      \A r \in Range(pitching.rows) :
        r.Date # NaNDate =>
          \E pk \in peaks :
            /\ pk.day = r.Date /\ pk.pitch_type = r.PitchType
            /\ pk.row \in Range(pitching.rows)
            /\ pk.row.Date = r.Date /\ pk.row.PitchType = r.PitchType
            /\ pk.row.Velocity >= r.Velocity
            /\ r.Velocity = pk.row.Velocity => pk.row.PitchNumber <= r.PitchNumber
            /\ \A other \in peaks :
                 (other.day = pk.day /\ other.pitch_type = pk.pitch_type) => other = pk

C9_Witness ==
    /\ pc = "done"
    /\ \E pk \in peaks : \E r \in Range(pitching.rows) :
         /\ r.Date = pk.day /\ r.PitchType = pk.pitch_type
         /\ r.Velocity = pk.row.Velocity
         /\ r.PitchNumber > pk.row.PitchNumber

\* C10: when the read fails the failure is reported, no table exists and no
\* later stage has run; the later stages run only after a successful load.
C10_FailedLoadNoTable ==
    /\ error # "none" =>
         /\ pc = "no_data"
         /\ ~pitching.some /\ ~loaded.some /\ ~normalized.some
         /\ movement_summary = <<>> /\ velocity = <<>> /\ peaks = {}
    /\ pc \in {"loaded", "normalized", "dates", "types", "filtered", "done", "KeyError",
               "ValueError"} =>
         /\ error = "none"
         /\ loaded = read_csv(uploaded_file)

C10_Witness ==
    /\ error = "ParserError"
    /\ pc = "no_data"
    /\ Len(uploaded_file.rows) >= 1

====
